---- MODULE Spec2Model ----
(***************************************************************************)
(* mysql-mcp: the request dispatcher, the three executors and the SQL      *)
(* guard of src/index.ts (second copy of the file, lines 596-1192), run    *)
(* against a model of the mysql driver's connection pool and of the        *)
(* database server.                                                        *)
(*                                                                         *)
(* A SQL string is a sequence of lexical pieces: a word is one piece, and  *)
(* every whitespace or punctuation character is one piece ("sp" a space,   *)
(* "tab" a tab, "nl" a line feed).  The string functions of the code       *)
(* (trim, split, toUpperCase, length, RegExp.test) are computed on that    *)
(* sequence.                                                               *)
(*                                                                         *)
(* Every await of the code that waits for the pool or for the database is  *)
(* a position (pc) of the request; the code between two such awaits runs   *)
(* as one action (a JavaScript continuation is not interleaved).           *)
(***************************************************************************)
EXTENDS Integers, Sequences, FiniteSets, TLC

(* ------------------------------ bounds -------------------------------- *)

\* number of requests that can be in flight at once
MaxReq == 1

\* size of the pool: serverConfig.mysql.connectionLimit (10 in the source,
\* src/index.ts:678), scaled down so that exhaustion is within reach
connectionLimit == 1

(* --------------------------- configuration ---------------------------- *)

maxQueryLength == 4096
maxRows == 1000

Req == 1..MaxReq
Conn == 1..connectionLimit

(* ------------------------- strings of the code ------------------------ *)

\* JavaScript's whitespace, as String.prototype.trim and the RegExp class \s see it
IsSpace(t) == t \in {"sp", "tab", "nl"}

\* String.prototype.toUpperCase on one piece
ToUpperCase(t) ==
  CASE t \in {"select", "Select"} -> "SELECT"
    [] t \in {"insert", "Insert"} -> "INSERT"
    [] t = "drop" -> "DROP"
    [] t = "exec" -> "EXEC"
    [] OTHER -> t

\* the number of characters of one piece
PieceLength(t) ==
  CASE t \in {"sp", "tab", "nl", ";", "=", "?", "x", "y"} -> 1
    [] t \in {"AND", "big"} -> 3
    [] t \in {"FROM", "DROP", "drop", "EXEC", "exec", "INTO"} -> 4
    [] t = "WHERE" -> 5
    [] t \in {"SELECT", "select", "Select", "INSERT", "insert", "Insert",
              "UPDATE", "DELETE"} -> 6
    [] t = "EXECUTE" -> 7
    [] t = "OUTFILE" -> 7
    [] t = "DUMPFILE" -> 8
    [] t = "data_type" -> 9
    [] t \in {"table_name", "DATABASE()"} -> 10
    [] t \in {"table_schema", "column_name,"} -> 12
    [] t = "information_schema.tables" -> 25
    [] t = "information_schema.columns" -> 26
    [] t = "literal4090" -> 4090

\* String.prototype.length
RECURSIVE Length(_)
Length(s) == IF s = <<>> THEN 0 ELSE PieceLength(Head(s)) + Length(Tail(s))

RECURSIVE TrimStart(_)
TrimStart(s) == IF s # <<>> /\ IsSpace(Head(s)) THEN TrimStart(Tail(s)) ELSE s

RECURSIVE TrimEnd(_)
TrimEnd(s) ==
  IF s # <<>> /\ IsSpace(s[Len(s)]) THEN TrimEnd(SubSeq(s, 1, Len(s) - 1)) ELSE s

\* String.prototype.trim
Trim(s) == TrimEnd(TrimStart(s))

\* s.split(' ')[0]: the pieces before the first space character
RECURSIVE SplitFirst(_)
SplitFirst(s) ==
  IF s = <<>> \/ Head(s) = "sp" THEN <<>> ELSE <<Head(s)>> \o SplitFirst(Tail(s))

\* sql.trim().split(' ')[0].toUpperCase()
sqlType(sql) == [i \in 1..Len(SplitFirst(Trim(sql))) |-> ToUpperCase(SplitFirst(Trim(sql))[i])]

(* ------------------------------ SQL guard ----------------------------- *)

\* The elements of a pattern: a word (matched without regard to case), \s* and \s+.
WsStar == "\\s*"
WsPlus == "\\s+"

dangerousPatterns ==
  << <<";", WsStar, "DROP", WsPlus>>,
     <<";", WsStar, "DELETE", WsPlus, "FROM", WsPlus>>,
     <<";", WsStar, "UPDATE", WsPlus>>,
     <<";", WsStar, "INSERT", WsPlus>>,
     <<"EXECUTE", WsPlus>>,
     <<"EXEC", WsPlus>>,
     <<"INTO", WsPlus, "OUTFILE">>,
     <<"INTO", WsPlus, "DUMPFILE">> >>

\* whether pattern p matches a prefix of s
RECURSIVE MatchHere(_, _)
MatchHere(p, s) ==
  IF p = <<>> THEN TRUE
  ELSE IF Head(p) = WsStar
    THEN \/ MatchHere(Tail(p), s)
         \/ s # <<>> /\ IsSpace(Head(s)) /\ MatchHere(p, Tail(s))
  ELSE IF Head(p) = WsPlus
    THEN s # <<>> /\ IsSpace(Head(s)) /\ MatchHere(<<WsStar>> \o Tail(p), Tail(s))
  ELSE s # <<>> /\ ToUpperCase(Head(s)) = Head(p) /\ MatchHere(Tail(p), Tail(s))

\* RegExp.prototype.test: the pattern matches somewhere in s
PatternTest(p, s) == \E i \in 1..(Len(s) + 1) : MatchHere(p, SubSeq(s, i, Len(s)))

checkSQLSecurity(sql) ==
  IF \E k \in 1..Len(dangerousPatterns) : PatternTest(dangerousPatterns[k], sql)
  THEN [safe |-> FALSE, reason |-> "Security"]
  ELSE [safe |-> TRUE, reason |-> ""]

checkQueryLimits(sql) ==
  IF Length(sql) > maxQueryLength
  THEN [safe |-> FALSE, reason |-> "Limit"]
  ELSE [safe |-> TRUE, reason |-> ""]

(* ------------------------------ requests ------------------------------ *)

SqlInsert == <<"INSERT", "sp", "x">>
SqlSelect == <<"SELECT", "sp", "x">>
\* leading whitespace, lower case, and a tab after the keyword
SqlSelectTab == <<"sp", "select", "tab", "x">>
SqlStackedSelect == <<"SELECT", "sp", "x", ";", "sp", "DROP", "sp", "y">>
SqlStackedInsert == <<"INSERT", "sp", "x", ";", "drop", "sp", "y">>
\* 6 + 1 + 4090 = 4097 characters
SqlLongSelect == <<"SELECT", "sp", "literal4090">>

\* a SELECT of every row of table big
SqlSelectBig == <<"SELECT", "sp", "big">>

\* the statements a client submits
UserSql ==
  {SqlInsert, SqlSelect, SqlSelectTab, SqlStackedSelect, SqlStackedInsert, SqlLongSelect,
   SqlSelectBig}

TABLE_LIST_QUERY ==
  <<"SELECT", "sp", "table_name", "sp", "FROM", "sp", "information_schema.tables", "sp",
    "WHERE", "sp", "table_schema", "sp", "=", "sp", "DATABASE()">>

\* the column query as it is without the condition on table_schema
COLUMN_METADATA_QUERY_AnySchema ==
  <<"SELECT", "sp", "column_name,", "sp", "data_type", "sp", "FROM", "sp",
    "information_schema.columns", "sp", "WHERE", "sp", "table_name", "sp", "=", "sp", "?">>

COLUMN_METADATA_QUERY ==
  <<"SELECT", "sp", "column_name,", "sp", "data_type", "sp", "FROM", "sp",
    "information_schema.columns", "sp", "WHERE", "sp", "table_schema", "sp", "=", "sp",
    "DATABASE()", "sp", "AND", "sp", "table_name", "sp", "=", "sp", "?">>

\* An optional string argument is <<>> when absent and <<s>> when it is the string s.
TableArgs == {<<>>, <<"">>, <<"users">>}

\* a test for a missing argument that lets the empty string through
Falsy_AbsentOnly(v) == v = <<>>

\* JavaScript's !v on an optional string
Falsy(v) == v = <<>> \/ v = <<"">>

\* resourceUrl.pathname.split("/") of the URIs a client reads
UriPaths == {<<"", "users", "schema">>, <<"", "users", "rows">>}

ToolNames == {"mysql_query", "mysql_execute", "list_tables", "describe_table", "unknown"}

NoRequest == [method |-> "none", name |-> "", sql |-> <<>>, table |-> <<>>, path |-> <<>>]

(* ----------------------------- the server ----------------------------- *)

\* information_schema.columns of the server: one row per column of every database
Catalog ==
  { [schema |-> "app", table |-> "users", column |-> "id", type |-> "int"],
    [schema |-> "app", table |-> "users", column |-> "name", type |-> "text"],
    [schema |-> "other", table |-> "users", column |-> "secret", type |-> "text"],
    [schema |-> "other", table |-> "orders", column |-> "id", type |-> "int"] }

Databases == {"app", "other"}

\* whether the pieces w occur in sql, one after the other
Contains(sql, w) ==
  \E i \in 1..(Len(sql) + 1 - Len(w)) : SubSeq(sql, i, i + Len(w) - 1) = w

\* The server's answer to a SELECT on information_schema when DATABASE() is d and ?
\* is bound to params[1]: the rows of the table named after FROM that satisfy the
\* conditions of the WHERE clause.  Each row keeps its schema, to tell where it came
\* from; a row of information_schema.tables has no column.
SelectCatalog(sql, params, d) ==
  LET from == IF Contains(sql, <<"information_schema.tables">>)
              THEN {[schema |-> x.schema, table |-> x.table, column |-> "", type |-> ""] :
                      x \in Catalog}
              ELSE Catalog
  IN {x \in from :
        /\ Contains(sql, <<"table_schema", "sp", "=", "sp", "DATABASE()">>) => x.schema = d
        /\ Contains(sql, <<"table_name", "sp", "=", "sp", "?">>) => x.table = params[1]}

\* the first word of a statement, as the server parses it
LeadingKeyword(sql) == IF TrimStart(sql) = <<>> THEN "" ELSE ToUpperCase(Head(TrimStart(sql)))

(* ------------------------------- state -------------------------------- *)

VARIABLES
  pc,            \* per request slot: where the handler is
  request,       \* per request slot: the request being served
  conn,          \* per request slot: the connection it holds, 0 for none
  results,       \* per request slot: the rows its statement returned
  resp,          \* per request slot: the response, once pc is "done"
  trace,         \* per request slot: what the call did, in order
  relState,      \* per request slot: <<open transaction, read-only session>> of the
                 \* connection at the moment the call released it, <<>> before
  free,          \* pool: the idle connections
  queue,         \* pool: the requests waiting for a connection, first come first
  readOnly,      \* per connection: the session is in READ ONLY mode
  inTxn,         \* per connection: a transaction is open
  txnWrite,      \* per connection: the open transaction holds an uncommitted row
  commitPending, \* per connection: the slot whose COMMIT is in flight, 0 for none
  db,            \* the committed contents: whether row x is present
  database       \* serverConfig.mysql.database, the value of DATABASE()

vars ==
  <<pc, request, conn, results, resp, trace, relState, free, queue,
    readOnly, inTxn, txnWrite, commitPending, db, database>>

poolVars == <<free, queue>>
connVars == <<readOnly, inTxn, txnWrite, commitPending>>

NoResp == [kind |-> "none", isError |-> FALSE, success |-> FALSE, error |-> "", rows |-> {}]

\* a handler that throws: the protocol library turns it into an error reply
Thrown(e) == [kind |-> "throw", isError |-> TRUE, success |-> FALSE, error |-> e, rows |-> {}]

\* the envelope {content: [...], isError}
Envelope(rows, isErr, ok, e) ==
  [kind |-> "result", isError |-> isErr, success |-> ok, error |-> e, rows |-> rows]

Init ==
  /\ pc = [r \in Req |-> "idle"]
  /\ request = [r \in Req |-> NoRequest]
  /\ conn = [r \in Req |-> 0]
  /\ results = [r \in Req |-> {}]
  /\ resp = [r \in Req |-> NoResp]
  /\ trace = [r \in Req |-> <<>>]
  /\ relState = [r \in Req |-> <<>>]
  /\ free = Conn
  /\ queue = <<>>
  /\ readOnly = [c \in Conn |-> FALSE]
  /\ inTxn = [c \in Conn |-> FALSE]
  /\ txnWrite = [c \in Conn |-> FALSE]
  /\ commitPending = [c \in Conn |-> 0]
  /\ db = FALSE
  /\ database \in Databases

(* ------------------------- steps of a handler ------------------------- *)

\* a wrapper that logs nothing when the action fails
withPerformanceMonitoring_SilentOnFailure(succeeded) ==
  IF succeeded THEN <<"LOG_OK">> ELSE <<>>

\* withPerformanceMonitoring, once its action has settled: one entry is logged, with
\* success true before the result is returned, with success false before the error is
\* thrown again
withPerformanceMonitoring(succeeded) ==
  IF succeeded THEN <<"LOG_OK">> ELSE <<"LOG_FAIL">>

\* the handler goes on to its next await, having done ev
Step(r, next, ev) ==
  /\ pc' = [pc EXCEPT ![r] = next]
  /\ trace' = [trace EXCEPT ![r] = trace[r] \o ev]
  /\ UNCHANGED <<conn, resp, relState, poolVars>>

\* The handler ends with response rsp, having done ev.  With rel it has called
\* connection.release(): the pool hands the connection to the first waiting request,
\* or puts it back among the idle ones.  Without rel the connection stays with the
\* call that borrowed it.
Leave(r, ev, rsp, rel) ==
  LET c == conn[r]
      h == IF rel /\ queue # <<>> THEN Head(queue) ELSE 0
  IN /\ pc' = [p \in Req |-> IF p = r THEN "done" ELSE IF p = h THEN "acquired" ELSE pc[p]]
     /\ conn' = [p \in Req |->
                   IF p = r THEN (IF rel THEN 0 ELSE c) ELSE IF p = h THEN c ELSE conn[p]]
     /\ trace' = [p \in Req |->
                    IF p = r THEN trace[r] \o ev
                    ELSE IF p = h THEN Append(trace[p], "ACQUIRE") ELSE trace[p]]
     /\ resp' = [resp EXCEPT ![r] = rsp]
     /\ queue' = IF h # 0 THEN Tail(queue) ELSE queue
     /\ free' = IF rel /\ h = 0 THEN free \cup {c} ELSE free
     /\ relState' = [relState EXCEPT ![r] = IF rel THEN <<inTxn'[c], readOnly'[c]>> ELSE @]

\* await getConnectionFromPool(connectionPool), which every executor does first and
\* outside its try block
getConnectionFromPool(r) ==
  \/ \E c \in free :
       /\ free' = free \ {c}
       /\ conn' = [conn EXCEPT ![r] = c]
       /\ pc' = [pc EXCEPT ![r] = "acquired"]
       /\ trace' = [trace EXCEPT ![r] = Append(trace[r], "ACQUIRE")]
       /\ UNCHANGED <<queue, resp, relState>>
  \/ /\ free = {}
     /\ queue' = Append(queue, r)
     /\ pc' = [pc EXCEPT ![r] = "waiting"]
     /\ UNCHANGED <<free, conn, trace, resp, relState>>
  \/ \* the pool cannot open a connection: the promise rejects and the executor throws
     /\ free # {}
     /\ Leave(r, <<>>, Thrown("Connection"), FALSE)

(* ------------------------- the request handlers ----------------------- *)

Idle(r) == pc[r] = "idle"

Accept(r, m, n, sql, t, p) ==
  request' = [request EXCEPT ![r] = [method |-> m, name |-> n, sql |-> sql, table |-> t, path |-> p]]

\* CallToolRequestSchema, case "mysql_query": executeReadOnlyQuery(args.sql)
CallMysqlQuery(r) ==
  /\ Idle(r)
  /\ \E sql \in UserSql : Accept(r, "tools/call", "mysql_query", sql, <<>>, <<>>)
  /\ getConnectionFromPool(r)
  /\ UNCHANGED <<results, connVars, db, database>>

\* CallToolRequestSchema, case "mysql_execute"
CallMysqlExecute(r) ==
  /\ Idle(r)
  /\ \E sql \in UserSql :
       /\ Accept(r, "tools/call", "mysql_execute", sql, <<>>, <<>>)
       /\ IF sqlType(sql) = <<"SELECT">>
          THEN Leave(r, <<>>, Thrown("Usage"), FALSE)
          ELSE getConnectionFromPool(r)
  /\ UNCHANGED <<results, connVars, db, database>>

\* CallToolRequestSchema, case "list_tables"
CallListTables(r) ==
  /\ Idle(r)
  /\ Accept(r, "tools/call", "list_tables", TABLE_LIST_QUERY, <<>>, <<>>)
  /\ getConnectionFromPool(r)
  /\ UNCHANGED <<results, connVars, db, database>>

\* CallToolRequestSchema, case "describe_table"
CallDescribeTable(r) ==
  /\ Idle(r)
  /\ \E tableName \in TableArgs :
       /\ Accept(r, "tools/call", "describe_table", COLUMN_METADATA_QUERY, tableName, <<>>)
       /\ IF Falsy(tableName)
          THEN Leave(r, <<>>, Thrown("Validation"), FALSE)
          ELSE getConnectionFromPool(r)
  /\ UNCHANGED <<results, connVars, db, database>>

\* CallToolRequestSchema, default case
CallUnknownTool(r) ==
  /\ Idle(r)
  /\ Accept(r, "tools/call", "unknown", <<>>, <<>>, <<>>)
  /\ Leave(r, <<>>, Thrown("UnknownTool"), FALSE)
  /\ UNCHANGED <<results, connVars, db, database>>

\* ListResourcesRequestSchema
ListResources(r) ==
  /\ Idle(r)
  /\ Accept(r, "resources/list", "", TABLE_LIST_QUERY, <<>>, <<>>)
  /\ getConnectionFromPool(r)
  /\ UNCHANGED <<results, connVars, db, database>>

\* ReadResourceRequestSchema: the last two components of the path are popped
ReadResource(r) ==
  /\ Idle(r)
  /\ \E pathComponents \in UriPaths :
       LET schema == pathComponents[Len(pathComponents)]
           tableName == pathComponents[Len(pathComponents) - 1]
       IN /\ Accept(r, "resources/read", "", COLUMN_METADATA_QUERY, <<tableName>>,
                    pathComponents)
          /\ IF schema # "schema"
             THEN Leave(r, <<>>, Thrown("InvalidURI"), FALSE)
             ELSE getConnectionFromPool(r)
  /\ UNCHANGED <<results, connVars, db, database>>

(* ------------------------------ executors ----------------------------- *)

ReadOnly(r) == request[r].name = "mysql_query"
Modify(r) == request[r].name = "mysql_execute"
Generic(r) == ~ReadOnly(r) /\ ~Modify(r)

\* The driver sends the statements of a connection in the order they were queued: a
\* statement is answered only once the COMMIT queued before it has been.
Answers(r) == conn[r] # 0 /\ commitPending[conn[r]] = 0

\* whether the server can run the user's statement on connection c: an INSERT of row
\* x fails in a read-only transaction and when x is there already (unique key)
CanRun(sql, c) == LeadingKeyword(sql) = "INSERT" => ~readOnly[c] /\ ~db

\* the number of rows of table big on the server: one more than the documented limit
BigTableRows == maxRows + 1

\* the rows a user's statement returns: every row of table big, or else row x if present
UserRows(sql) ==
  IF Contains(sql, <<"big">>)
  THEN {[schema |-> database, table |-> "big", row |-> i] : i \in 1..BigTableRows}
  ELSE IF db THEN {[schema |-> database, table |-> "x", row |-> 1]} ELSE {}

\* ---- executeReadOnlyQuery ----

\* the guard inside the try block: its rejection is caught, logged and rolled back
ReadOnlyStart_GuardInTry(r) ==
  /\ pc[r] = "acquired" /\ ReadOnly(r)
  /\ IF ~checkSQLSecurity(request[r].sql).safe
     THEN Step(r, "rollbackErr", withPerformanceMonitoring(FALSE) \o <<"ROLLBACK">>)
     ELSE Step(r, "setRO", <<"SETRO">>)
  /\ UNCHANGED <<request, results, connVars, db, database>>

\* after the connection is obtained: the guard, then SET SESSION TRANSACTION READ ONLY
ReadOnlyStart(r) ==
  /\ pc[r] = "acquired" /\ ReadOnly(r)
  /\ IF ~checkSQLSecurity(request[r].sql).safe
     THEN Leave(r, <<>>, Thrown(checkSQLSecurity(request[r].sql).reason), FALSE)
     ELSE Step(r, "setRO", <<"SETRO">>)
  /\ UNCHANGED <<request, results, connVars, db, database>>

\* SET SESSION TRANSACTION READ ONLY done: beginTransaction
ReadOnlySet(r) ==
  /\ pc[r] = "setRO" /\ ReadOnly(r) /\ Answers(r)
  /\ readOnly' = [readOnly EXCEPT ![conn[r]] = TRUE]
  /\ Step(r, "begin", <<"BEGIN">>)
  /\ UNCHANGED <<request, results, inTxn, txnWrite, commitPending, db, database>>

\* transaction begun: the user's statement
ReadOnlyBegun(r) ==
  /\ pc[r] = "begin" /\ ReadOnly(r) /\ Answers(r)
  /\ inTxn' = [inTxn EXCEPT ![conn[r]] = TRUE]
  /\ Step(r, "query", <<"STMT">>)
  /\ UNCHANGED <<request, results, readOnly, txnWrite, commitPending, db, database>>

\* the success path without its rollback: straight to SET SESSION TRANSACTION READ WRITE
ReadOnlyQueried_NoRollback(r) ==
  /\ pc[r] = "query" /\ ReadOnly(r) /\ Answers(r)
  /\ CanRun(request[r].sql, conn[r])
  /\ results' = [results EXCEPT ![r] = UserRows(request[r].sql)]
  /\ Step(r, "setRW", <<"SETRW">>)
  /\ UNCHANGED <<request, connVars, db, database>>

\* the statement returned its rows: rollbackTransaction
ReadOnlyQueried(r) ==
  /\ pc[r] = "query" /\ ReadOnly(r) /\ Answers(r)
  /\ CanRun(request[r].sql, conn[r])
  /\ results' = [results EXCEPT ![r] = UserRows(request[r].sql)]
  /\ Step(r, "rollback", <<"ROLLBACK">>)
  /\ UNCHANGED <<request, connVars, db, database>>

\* the success path without the restoration: the envelope is returned after the rollback
ReadOnlyRolledBack_NoRestore(r) ==
  /\ pc[r] = "rollback" /\ ReadOnly(r) /\ Answers(r)
  /\ inTxn' = [inTxn EXCEPT ![conn[r]] = FALSE]
  /\ txnWrite' = [txnWrite EXCEPT ![conn[r]] = FALSE]
  /\ UNCHANGED <<readOnly, commitPending>>
  /\ Leave(r, withPerformanceMonitoring(TRUE) \o <<"RELEASE">>, Envelope(results[r], FALSE, TRUE, ""), TRUE)
  /\ UNCHANGED <<request, results, db, database>>

\* rolled back (the callback ignores the outcome): SET SESSION TRANSACTION READ WRITE
ReadOnlyRolledBack(r) ==
  /\ pc[r] = "rollback" /\ ReadOnly(r) /\ Answers(r)
  /\ inTxn' = [inTxn EXCEPT ![conn[r]] = FALSE]
  /\ txnWrite' = [txnWrite EXCEPT ![conn[r]] = FALSE]
  /\ Step(r, "setRW", <<"SETRW">>)
  /\ UNCHANGED <<request, results, readOnly, commitPending, db, database>>

\* SET SESSION TRANSACTION READ WRITE done: the entry is logged, the envelope is
\* returned and the finally block releases the connection
ReadOnlyRestored(r) ==
  /\ pc[r] = "setRW" /\ ReadOnly(r) /\ Answers(r)
  /\ readOnly' = [readOnly EXCEPT ![conn[r]] = FALSE]
  /\ UNCHANGED <<inTxn, txnWrite, commitPending>>
  /\ Leave(r, withPerformanceMonitoring(TRUE) \o <<"RELEASE">>, Envelope(results[r], FALSE, TRUE, ""), TRUE)
  /\ UNCHANGED <<request, results, db, database>>

\* one of the four statements of the action fails: withPerformanceMonitoring logs the
\* failure and rethrows, the catch block rolls back
ReadOnlyFailed(r) ==
  /\ pc[r] \in {"setRO", "begin", "query", "setRW"} /\ ReadOnly(r) /\ Answers(r)
  /\ Step(r, "rollbackErr", <<"ERR">> \o withPerformanceMonitoring(FALSE) \o <<"ROLLBACK">>)
  /\ UNCHANGED <<request, results, connVars, db, database>>

\* a catch block that restores the session after its rollback
ReadOnlyAborted_Restores(r) ==
  /\ pc[r] = "rollbackErr" /\ ReadOnly(r) /\ Answers(r)
  /\ inTxn' = [inTxn EXCEPT ![conn[r]] = FALSE]
  /\ txnWrite' = [txnWrite EXCEPT ![conn[r]] = FALSE]
  /\ readOnly' = [readOnly EXCEPT ![conn[r]] = FALSE]
  /\ UNCHANGED commitPending
  /\ Leave(r, <<"SETRW", "RELEASE">>, Thrown("Database"), TRUE)
  /\ UNCHANGED <<request, results, db, database>>

\* the rollback of the catch block done: the error is rethrown, finally releases
ReadOnlyAborted(r) ==
  /\ pc[r] = "rollbackErr" /\ ReadOnly(r) /\ Answers(r)
  /\ inTxn' = [inTxn EXCEPT ![conn[r]] = FALSE]
  /\ txnWrite' = [txnWrite EXCEPT ![conn[r]] = FALSE]
  /\ UNCHANGED <<readOnly, commitPending>>
  /\ Leave(r, <<"RELEASE">>, Thrown("Database"), TRUE)
  /\ UNCHANGED <<request, results, db, database>>

\* ---- executeModifyQuery ----

\* what the mysql_execute case makes of the executor's result {success, message}
ExecuteResponse(success, message) == Envelope({}, ~success, success, message)

\* after the connection is obtained: the guard, then beginTransaction
ModifyStart(r) ==
  /\ pc[r] = "acquired" /\ Modify(r)
  /\ IF ~checkSQLSecurity(request[r].sql).safe
     THEN Leave(r, <<>>, ExecuteResponse(FALSE, checkSQLSecurity(request[r].sql).reason), FALSE)
     ELSE Step(r, "begin", <<"BEGIN">>)
  /\ UNCHANGED <<request, results, connVars, db, database>>

\* transaction begun: the user's statement
ModifyBegun(r) ==
  /\ pc[r] = "begin" /\ Modify(r) /\ Answers(r)
  /\ inTxn' = [inTxn EXCEPT ![conn[r]] = TRUE]
  /\ Step(r, "query", <<"STMT">>)
  /\ UNCHANGED <<request, results, readOnly, txnWrite, commitPending, db, database>>

\* The statement ran.  connection.commit() is called without a callback: like
\* beginTransaction and rollback (wrapped in promises at lines 730-746) it reports
\* through a callback and returns no promise, so the await goes on at once.  The
\* COMMIT is queued on the connection, the success is logged and returned, and the
\* finally block releases the connection, all before the server answers the COMMIT.
ModifyExecuted(r) ==
  /\ pc[r] = "query" /\ Modify(r) /\ Answers(r)
  /\ CanRun(request[r].sql, conn[r])
  /\ txnWrite' = [txnWrite EXCEPT ![conn[r]] = (LeadingKeyword(request[r].sql) = "INSERT")]
  /\ commitPending' = [commitPending EXCEPT ![conn[r]] = r]
  /\ UNCHANGED <<readOnly, inTxn>>
  /\ Leave(r, <<"COMMIT">> \o withPerformanceMonitoring(TRUE) \o <<"RELEASE">>, ExecuteResponse(TRUE, ""), TRUE)
  /\ UNCHANGED <<request, results, db, database>>

\* beginTransaction or the statement fails: withPerformanceMonitoring logs the failure
\* and rethrows, the catch block rolls back
ModifyFailed(r) ==
  /\ pc[r] \in {"begin", "query"} /\ Modify(r) /\ Answers(r)
  /\ Step(r, "rollbackErr", <<"ERR">> \o withPerformanceMonitoring(FALSE) \o <<"ROLLBACK">>)
  /\ UNCHANGED <<request, results, connVars, db, database>>

\* the rollback of the catch block done: {success: false} is returned, finally releases
ModifyAborted(r) ==
  /\ pc[r] = "rollbackErr" /\ Modify(r) /\ Answers(r)
  /\ inTxn' = [inTxn EXCEPT ![conn[r]] = FALSE]
  /\ txnWrite' = [txnWrite EXCEPT ![conn[r]] = FALSE]
  /\ UNCHANGED <<readOnly, commitPending>>
  /\ Leave(r, <<"RELEASE">>, ExecuteResponse(FALSE, "Database"), TRUE)
  /\ UNCHANGED <<request, results, db, database>>

\* The server answers a COMMIT in flight: the transaction's row is committed, or the
\* COMMIT fails and the server abandons the transaction.  Nothing of the code waits
\* for the answer; it is noted in the trace of the call that sent the COMMIT.
CommitAnswered(c) ==
  /\ commitPending[c] # 0
  /\ \/ /\ db' = (db \/ txnWrite[c])
        /\ trace' = [trace EXCEPT ![commitPending[c]] = Append(@, "COMMIT_OK")]
     \/ /\ db' = db
        /\ trace' = [trace EXCEPT ![commitPending[c]] = Append(@, "COMMIT_ERR")]
  /\ inTxn' = [inTxn EXCEPT ![c] = FALSE]
  /\ txnWrite' = [txnWrite EXCEPT ![c] = FALSE]
  /\ commitPending' = [commitPending EXCEPT ![c] = 0]
  /\ UNCHANGED <<pc, request, conn, results, resp, relState, poolVars, readOnly, database>>

\* ---- executeQuery ----

\* after the connection is obtained: the guard and the length limit, then the statement
QueryStart(r) ==
  /\ pc[r] = "acquired" /\ Generic(r)
  /\ IF ~checkSQLSecurity(request[r].sql).safe
     THEN Leave(r, <<>>, Thrown(checkSQLSecurity(request[r].sql).reason), FALSE)
     ELSE IF ~checkQueryLimits(request[r].sql).safe
     THEN Leave(r, <<>>, Thrown(checkQueryLimits(request[r].sql).reason), FALSE)
     ELSE Step(r, "query", <<"STMT">>)
  /\ UNCHANGED <<request, results, connVars, db, database>>

\* the statement returned its rows: logged, released by finally, shaped by the handler
QueryAnswered(r) ==
  /\ pc[r] = "query" /\ Generic(r) /\ Answers(r)
  /\ UNCHANGED connVars
  /\ Leave(r, withPerformanceMonitoring(TRUE) \o <<"RELEASE">>,
           Envelope(SelectCatalog(request[r].sql, request[r].table, database), FALSE, TRUE, ""),
           TRUE)
  /\ UNCHANGED <<request, results, db, database>>

\* the statement failed: logged, released by finally, the error goes to the client
QueryFailed(r) ==
  /\ pc[r] = "query" /\ Generic(r) /\ Answers(r)
  /\ UNCHANGED connVars
  /\ Leave(r, <<"ERR">> \o withPerformanceMonitoring(FALSE) \o <<"RELEASE">>, Thrown("Database"), TRUE)
  /\ UNCHANGED <<request, results, db, database>>

(* --------------------------- the whole system ------------------------- *)

\* The client has its response and the slot serves the next request.  A connection the
\* call still holds is lost to the pool.  (The slot is kept until the COMMIT the call
\* sent has been answered, so that the answer can be noted in its trace.)
Return(r) ==
  /\ pc[r] = "done"
  /\ \A c \in Conn : commitPending[c] # r
  /\ pc' = [pc EXCEPT ![r] = "idle"]
  /\ request' = [request EXCEPT ![r] = NoRequest]
  /\ conn' = [conn EXCEPT ![r] = 0]
  /\ results' = [results EXCEPT ![r] = {}]
  /\ resp' = [resp EXCEPT ![r] = NoResp]
  /\ trace' = [trace EXCEPT ![r] = <<>>]
  /\ relState' = [relState EXCEPT ![r] = <<>>]
  /\ UNCHANGED <<poolVars, connVars, db, database>>

Call(r) ==
  \/ CallMysqlQuery(r)
  \/ CallMysqlExecute(r)
  \/ CallListTables(r)
  \/ CallDescribeTable(r)
  \/ CallUnknownTool(r)
  \/ ListResources(r)
  \/ ReadResource(r)

\* the code that runs once a request has its connection
Start(r) == ReadOnlyStart(r) \/ ModifyStart(r) \/ QueryStart(r)

\* the code that runs once the database has answered the statement a request awaits
Answer(r) ==
  \/ ReadOnlySet(r)
  \/ ReadOnlyBegun(r)
  \/ ReadOnlyQueried(r)
  \/ ReadOnlyRolledBack(r)
  \/ ReadOnlyRestored(r)
  \/ ReadOnlyFailed(r)
  \/ ReadOnlyAborted(r)
  \/ ModifyBegun(r)
  \/ ModifyExecuted(r)
  \/ ModifyFailed(r)
  \/ ModifyAborted(r)
  \/ QueryAnswered(r)
  \/ QueryFailed(r)

Next ==
  \/ \E r \in Req : Call(r) \/ Start(r) \/ Answer(r) \/ Return(r)
  \/ \E c \in Conn : CommitAnswered(c)

Spec == Init /\ [][Next]_vars

\* The continuation of a request that has its connection runs, and the database
\* answers every statement sent to it.  Clients need not send requests.
Fairness ==
  /\ \A r \in Req : WF_vars(Start(r)) /\ WF_vars(Answer(r)) /\ WF_vars(Return(r))
  /\ \A c \in Conn : WF_vars(CommitAnswered(c))

FairSpec == Spec /\ Fairness

(* ------------------------------- claims ------------------------------- *)

Events(r) == {trace[r][i] : i \in DOMAIN trace[r]}
Count(r, e) == Cardinality({i \in DOMAIN trace[r] : trace[r][i] = e})
Done(r) == pc[r] = "done"

\* every e1 of the call's trace is followed by an e2 that comes before the RELEASE
EndedBeforeRelease(r, e1, e2) ==
  \A i \in DOMAIN trace[r] :
    trace[r][i] = e1 =>
      \E j, k \in DOMAIN trace[r] :
        i < j /\ j < k /\ trace[r][j] = e2 /\ trace[r][k] = "RELEASE"

\* C1: when a call of any tool or resource handler has returned or failed, every
\* connection it acquired from the pool has been released exactly once, so that the
\* call holds no connection any more.
C1_AcquiredConnectionsReleased ==
  \A r \in Req :
    Done(r) => Count(r, "RELEASE") = Count(r, "ACQUIRE") /\ conn[r] = 0

\* C2: whatever the outcomes of the earlier requests, a request that waits for a
\* connection eventually acquires one and completes, provided the database answers
\* every statement sent to it.
C2_WaitingRequestCompletes ==
  \A r \in Req : (pc[r] = "waiting") ~> (pc[r] = "done")

\* C3: a call with a statement longer than maxQueryLength is rejected with the
\* length-limit failure, and it acquires no connection and sends no statement.
C3_LongStatementRejectedFirst ==
  \A r \in Req :
    pc[r] # "idle" /\ Length(request[r].sql) > maxQueryLength =>
      /\ trace[r] = <<>>
      /\ conn[r] = 0
      /\ Done(r) => resp[r] = Thrown("Limit")

\* C4: mysql_execute with a statement whose leading keyword is SELECT, in any case
\* and with any whitespace around the keyword, fails with the usage-guidance error:
\* it acquires no connection and begins no transaction.
C4_SelectNeverReachesDatabase ==
  \A r \in Req :
    request[r].name = "mysql_execute" /\ LeadingKeyword(request[r].sql) = "SELECT" =>
      /\ trace[r] = <<>>
      /\ conn[r] = 0
      /\ pc[r] \notin {"idle", "waiting"} => resp[r] = Thrown("Usage")

\* C5: when the begin, the statement or the commit of a mysql_execute call fails, the
\* transaction is rolled back before the connection is released, the response has
\* success false, and nothing of the call is committed.
C5_FailedModifyChangesNothing ==
  \A r \in Req :
    Done(r) /\ request[r].name = "mysql_execute"
            /\ Events(r) \cap {"ERR", "COMMIT_ERR"} # {} =>
      /\ \E i, j \in DOMAIN trace[r] :
           i < j /\ trace[r][i] = "ROLLBACK" /\ trace[r][j] = "RELEASE"
      /\ ~resp[r].success
      /\ "COMMIT_OK" \notin Events(r)

\* C6: a mysql_query call never sends a COMMIT, and every transaction it begins is
\* ended by a ROLLBACK before it releases the connection: the connection has no open
\* transaction when it goes back to the pool.
C6_ReadOnlyAlwaysRolledBack ==
  \A r \in Req :
    request[r].name = "mysql_query" =>
      /\ "COMMIT" \notin Events(r)
      /\ "RELEASE" \in Events(r) =>
           EndedBeforeRelease(r, "BEGIN", "ROLLBACK") /\ relState[r][1] = FALSE

\* a mysql_query call that began its transaction has released its connection, after a
\* failure or after a success
C6_Witness ==
  \E r \in Req :
    /\ Done(r) /\ request[r].name = "mysql_query"
    /\ {"BEGIN", "RELEASE"} \subseteq Events(r)

\* C7: when a mysql_query call succeeds, the connection it used had no open
\* transaction and a read-write session at the moment it was released.
C7_SuccessLeavesSessionReadWrite ==
  \A r \in Req :
    Done(r) /\ request[r].name = "mysql_query" /\ resp[r].kind = "result" =>
      relState[r] = <<FALSE, FALSE>>

\* a mysql_query call has succeeded, on a session it had set read-only
C7_Witness ==
  \E r \in Req :
    /\ Done(r) /\ request[r].name = "mysql_query" /\ resp[r].kind = "result"
    /\ {"SETRO", "SETRW", "RELEASE"} \subseteq Events(r)

\* C8: a mysql_execute call that passed the SELECT check never throws: it answers
\* with a result, whose success is false with a message when the guard rejected the
\* statement or when obtaining the connection, the begin, the statement or the commit
\* failed, and isError is true exactly when success is false.
C8_ModifyNeverThrows ==
  \A r \in Req :
    Done(r) /\ request[r].name = "mysql_execute" /\ sqlType(request[r].sql) # <<"SELECT">> =>
      /\ resp[r].kind = "result"
      /\ resp[r].isError = ~resp[r].success
      /\ \/ Events(r) \cap {"ERR", "COMMIT_ERR"} # {}
         \/ ~checkSQLSecurity(request[r].sql).safe
         => ~resp[r].success /\ resp[r].error # ""

\* the calls that read the catalog
IsCatalogCall(r) ==
  \/ request[r].name \in {"list_tables", "describe_table"}
  \/ request[r].method \in {"resources/list", "resources/read"}

\* C9: every row in the response of list_tables, describe_table, the resource listing
\* and a resource read describes a table or column of the connected database, also
\* when another database has a table of the requested name.
C9_CatalogRowsOfConnectedDatabase ==
  \A r \in Req :
    Done(r) /\ IsCatalogCall(r) => \A row \in resp[r].rows : row.schema = database

\* describe_table and a resource read have returned the columns of a table whose name
\* exists in another database too, and list_tables and the listing have returned rows
C9_Witness ==
  /\ \E x, y \in Catalog : x.table = "users" /\ y.table = "users" /\ x.schema # y.schema
  /\ \E r \in Req :
       /\ Done(r) /\ request[r].table = <<"users">> /\ resp[r].rows # {}
       /\ request[r].name = "describe_table" \/ request[r].method = "resources/read"

\* C10: describe_table without a table argument, absent or empty, fails with the
\* validation error; it acquires no connection and sends no statement.
C10_DescribeTableNeedsTable ==
  \A r \in Req :
    request[r].name = "describe_table" /\ request[r].table \in {<<>>, <<"">>} =>
      /\ Done(r) /\ resp[r] = Thrown("Validation")
      /\ trace[r] = <<>> /\ conn[r] = 0

\* describe_table has been called with an empty table name
C10_Witness ==
  \E r \in Req :
    Done(r) /\ request[r].name = "describe_table" /\ request[r].table = <<"">>

\* C11: the row array of a mysql_query response has at most maxRows elements, whatever
\* the statement and the contents of the database.
C11_AtMostMaxRows ==
  \A r \in Req :
    Done(r) /\ request[r].name = "mysql_query" /\ resp[r].kind = "result" =>
      Cardinality(resp[r].rows) <= maxRows

\* C12: a call that fails because the guard or the length limit rejected its statement
\* or because the database reported an error has logged exactly one entry, with success
\* false, by the time its error or failure response leaves.
C12_FailuresLogged ==
  \A r \in Req :
    Done(r) /\ (resp[r].kind = "throw" \/ ~resp[r].success)
            /\ resp[r].error \in {"Security", "Limit", "Database"} =>
      Count(r, "LOG_FAIL") = 1 /\ Count(r, "LOG_OK") = 0

\* what a call can send on its connection
Statements == {"SETRO", "BEGIN", "STMT", "COMMIT", "ROLLBACK", "SETRW"}

\* C13: a call whose statement the guard finds unsafe sends nothing on the connection
\* it acquired: not the statement, no SET SESSION TRANSACTION, no BEGIN, COMMIT or
\* ROLLBACK.
C13_UnsafeVerdictTouchesNothing ==
  \A r \in Req :
    pc[r] # "idle" /\ ~checkSQLSecurity(request[r].sql).safe =>
      Events(r) \cap Statements = {}

\* a call has been rejected by the guard after it acquired its connection
C13_Witness ==
  \E r \in Req :
    /\ Done(r) /\ ~checkSQLSecurity(request[r].sql).safe
    /\ "ACQUIRE" \in Events(r) /\ resp[r].error = "Security"

\* the wrapper has been entered: its action has sent its first statement
Monitored(r) == Events(r) \cap {"SETRO", "BEGIN", "STMT"} # {}

\* C14: an invocation of withPerformanceMonitoring logs one entry, never two.  When
\* the action succeeds the entry has success true and the action's result is what the
\* call returns; when it fails the entry has success false, is logged before anything
\* else is done, and the error is passed on to the caller.  No statement is sent twice.
C14_OneLogEntryPerInvocation ==
  \A r \in Req :
    /\ Count(r, "LOG_OK") + Count(r, "LOG_FAIL") <= 1
    /\ Count(r, "STMT") <= 1 /\ Count(r, "BEGIN") <= 1
    /\ "ERR" \in Events(r) =>
         \E i \in DOMAIN trace[r] :
           i < Len(trace[r]) /\ trace[r][i] = "ERR" /\ trace[r][i + 1] = "LOG_FAIL"
    /\ Done(r) /\ Monitored(r) =>
         /\ Count(r, "LOG_OK") + Count(r, "LOG_FAIL") = 1
         /\ "LOG_FAIL" \in Events(r) <=> "ERR" \in Events(r)
         /\ "LOG_FAIL" \in Events(r) =>
              resp[r].error = "Database" /\ (resp[r].kind = "throw" \/ ~resp[r].success)
         /\ "LOG_OK" \in Events(r) =>
              /\ resp[r].kind = "result" /\ resp[r].success
              /\ ReadOnly(r) => resp[r].rows = results[r]

\* a monitored action has failed and its call has ended
C14_Witness ==
  \E r \in Req : Done(r) /\ Monitored(r) /\ "LOG_FAIL" \in Events(r)

\* C15: when setting the session read-only, beginning the transaction or running the
\* statement of a mysql_query call fails, the call logs the failure, rolls back,
\* releases the connection and throws the error, and sends no SET SESSION TRANSACTION
\* READ WRITE; that statement is sent only after all the steps before it succeeded.
C15_FailureRollsBackWithoutRestore ==
  \A r \in Req :
    request[r].name = "mysql_query" =>
      /\ "SETRW" \in Events(r) =>
           SubSeq(trace[r], 1, 6) = <<"ACQUIRE", "SETRO", "BEGIN", "STMT", "ROLLBACK", "SETRW">>
      /\ \A i \in DOMAIN trace[r] :
           Done(r) /\ trace[r][i] = "ERR" /\ trace[r][i - 1] \in {"SETRO", "BEGIN", "STMT"} =>
             /\ SubSeq(trace[r], i + 1, Len(trace[r])) = <<"LOG_FAIL", "ROLLBACK", "RELEASE">>
             /\ "SETRW" \notin Events(r)
             /\ resp[r] = Thrown("Database")

\* the statement of a mysql_query call has failed; the connection went back to the
\* pool rolled back and with its session still read-only
C15_Witness ==
  \E r \in Req :
    /\ Done(r) /\ request[r].name = "mysql_query"
    /\ trace[r] = <<"ACQUIRE", "SETRO", "BEGIN", "STMT", "ERR", "LOG_FAIL", "ROLLBACK", "RELEASE">>
    /\ relState[r] = <<FALSE, TRUE>>

\* the server answered the call's COMMIT before the call released its connection
CommitAnsweredBeforeRelease(r, answer) ==
  \E i, j \in DOMAIN trace[r] : i < j /\ trace[r][i] = answer /\ trace[r][j] = "RELEASE"

\* C16: mysql_execute answers success true only once its COMMIT has succeeded, it
\* releases the connection only once the COMMIT has been answered, and a COMMIT that
\* fails gives a rollback and success false.
C16_SuccessOnlyAfterCommit ==
  \A r \in Req :
    Done(r) /\ request[r].name = "mysql_execute" =>
      /\ resp[r].success => CommitAnsweredBeforeRelease(r, "COMMIT_OK")
      /\ {"COMMIT", "RELEASE"} \subseteq Events(r) =>
           \/ CommitAnsweredBeforeRelease(r, "COMMIT_OK")
           \/ CommitAnsweredBeforeRelease(r, "COMMIT_ERR")
      /\ "COMMIT_ERR" \in Events(r) => ~resp[r].success /\ "ROLLBACK" \in Events(r)

\* C17: every connection that sits idle in the pool, with nothing in flight on it, has
\* a read-write session and no open transaction, so that mysql_execute can write on it.
C17_IdleConnectionsReadWrite ==
  \A c \in free : commitPending[c] = 0 => ~readOnly[c] /\ ~inTxn[c]

====
